---- MODULE Spec2Model ----
(***************************************************************************)
(* Team-board access control of the Azure DevOps work-item tools:          *)
(* src/src/utils/team-board-validation.ts (allow-list parsing, team        *)
(* resolution and cache, area-path decomposition, access decision) and the *)
(* request router handleWorkItemsRequest of                                *)
(* src/src/features/search/search-work-items/feature.ts.                   *)
(*                                                                         *)
(* A JavaScript string is a sequence of one-character strings; an optional *)
(* or nullable value is a record [ty, s] with ty in                        *)
(* {"undefined", "null", "string", "number"}.                              *)
(***************************************************************************)
EXTENDS Naturals, Integers, Sequences, FiniteSets, TLC

(* ------------------------- JavaScript values -------------------------- *)

Undef == [ty |-> "undefined", s |-> <<>>]

Null == [ty |-> "null", s |-> <<>>]

Str(s) == [ty |-> "string", s |-> s]

NumVal == [ty |-> "number", s |-> <<"7">>]

\* JavaScript truthiness of a value: undefined, null and "" are falsy.
Truthy(x) == \/ x.ty = "string" /\ x.s # <<>>
             \/ x.ty = "number"

IsString(x) == x.ty = "string"

(* ------------------------- string primitives -------------------------- *)

BS == "\\"

Comma == ","

Space == " "

\* String.prototype.toLowerCase on one character of the alphabet in use.
LowerChar(c) ==
    CASE c = "A" -> "a"
      [] c = "B" -> "b"
      [] c = "C" -> "c"
      [] c = "P" -> "p"
      [] c = "Q" -> "q"
      [] OTHER -> c

ToLowerCase(s) == [i \in 1..Len(s) |-> LowerChar(s[i])]

RECURSIVE TrimStart(_)
TrimStart(s) ==
    IF s # <<>> /\ Head(s) = Space THEN TrimStart(Tail(s)) ELSE s

RECURSIVE TrimEnd(_)
TrimEnd(s) ==
    IF s # <<>> /\ s[Len(s)] = Space
    THEN TrimEnd(SubSeq(s, 1, Len(s) - 1))
    ELSE s

\* String.prototype.trim
Trim(s) == TrimEnd(TrimStart(s))

RECURSIVE SplitFrom(_, _, _)
SplitFrom(s, sep, cur) ==
    IF s = <<>> THEN <<cur>>
    ELSE IF Head(s) = sep
         THEN <<cur>> \o SplitFrom(Tail(s), sep, <<>>)
         ELSE SplitFrom(Tail(s), sep, Append(cur, Head(s)))

\* String.prototype.split on a one-character separator: "" gives [""].
Split(s, sep) == SplitFrom(s, sep, <<>>)

StartsWith(s, p) == Len(s) >= Len(p) /\ SubSeq(s, 1, Len(p)) = p

\* String.prototype.substring(n)
Substring(s, n) == SubSeq(s, n + 1, Len(s))

RECURSIVE Join(_, _)
\* Array.prototype.join
Join(parts, sep) ==
    IF parts = <<>> THEN <<>>
    ELSE IF Len(parts) = 1 THEN parts[1]
    ELSE parts[1] \o sep \o Join(Tail(parts), sep)

RECURSIVE FilterNonEmpty(_)
FilterNonEmpty(xs) ==
    IF xs = <<>> THEN <<>>
    ELSE IF Len(Head(xs)) > 0
         THEN <<Head(xs)>> \o FilterNonEmpty(Tail(xs))
         ELSE FilterNonEmpty(Tail(xs))

(* ---------------------- team-board-validation.ts ---------------------- *)

\* The result of parseAllowedTeamBoards: null, or an array of names.
NullList == [isNull |-> TRUE, list |-> <<>>]

ListOf(xs) == [isNull |-> FALSE, list |-> xs]

\* A faulty variant of parseAllowedTeamBoards: the empty tokens are dropped
\* before the tokens are trimmed.
parseAllowedTeamBoards_FilterFirst(allowedTeamBoards) ==
    IF ~Truthy(allowedTeamBoards) \/ Trim(allowedTeamBoards.s) = <<>>
    THEN NullList
    ELSE LET parts == FilterNonEmpty(Split(allowedTeamBoards.s, Comma))
         IN  ListOf([i \in 1..Len(parts) |-> Trim(parts[i])])

parseAllowedTeamBoards(allowedTeamBoards) ==
    IF ~Truthy(allowedTeamBoards) \/ Trim(allowedTeamBoards.s) = <<>>
    THEN NullList
    ELSE LET parts == Split(allowedTeamBoards.s, Comma)
             trimmed == [i \in 1..Len(parts) |-> Trim(parts[i])]
         IN  ListOf(FilterNonEmpty(trimmed))

\* A faulty variant of NoAllowedTeams: the length test is forgotten.
NoAllowedTeams_NullOnly(allowedTeams) == allowedTeams.isNull

\* !allowedTeams || allowedTeams.length === 0
NoAllowedTeams(allowedTeams) ==
    allowedTeams.isNull \/ Len(allowedTeams.list) = 0

\* A faulty variant of isTeamAllowed: the names are compared as written.
isTeamAllowed_CaseSensitive(allowedTeamBoards, teamName) ==
    IF NoAllowedTeams(allowedTeamBoards)
    THEN FALSE
    ELSE \E i \in 1..Len(allowedTeamBoards.list) :
            allowedTeamBoards.list[i] = teamName

\* A faulty variant of isTeamAllowed: only the allow-list entry is lower-cased.
isTeamAllowed_NameAsWritten(allowedTeamBoards, teamName) ==
    IF NoAllowedTeams(allowedTeamBoards)
    THEN FALSE
    ELSE \E i \in 1..Len(allowedTeamBoards.list) :
            ToLowerCase(allowedTeamBoards.list[i]) = teamName

isTeamAllowed(allowedTeamBoards, teamName) ==
    IF NoAllowedTeams(allowedTeamBoards)
    THEN FALSE
    ELSE \E i \in 1..Len(allowedTeamBoards.list) :
            ToLowerCase(allowedTeamBoards.list[i]) = ToLowerCase(teamName)

\* A faulty variant of extractTeamNameFromAreaPath: the last segment is taken
\* ("Project\Path\TeamName").
extractTeamNameFromAreaPath_LastSegment(areaPath, projectId) ==
    LET prefix == projectId \o <<BS>>
        pathWithoutProject ==
            IF StartsWith(areaPath, prefix)
            THEN Substring(areaPath, Len(projectId) + 1)
            ELSE areaPath
        segments == Split(pathWithoutProject, BS)
    IN  IF Len(segments) > 0 /\ segments[Len(segments)] # <<>>
        THEN Str(segments[Len(segments)])
        ELSE Null

extractTeamNameFromAreaPath(areaPath, projectId) ==
    LET prefix == projectId \o <<BS>>
        pathWithoutProject ==
            IF StartsWith(areaPath, prefix)
            THEN Substring(areaPath, Len(projectId) + 1)
            ELSE areaPath
        segments == Split(pathWithoutProject, BS)
    IN  IF Len(segments) > 0 /\ segments[1] # <<>>
        THEN Str(segments[1])
        ELSE Null

\* A faulty variant of getWorkItemTeamId: an item that has an area path is
\* identified by it.
getWorkItemTeamId_AreaPathFirst(workItem) ==
    IF Truthy(workItem.teamId) /\ IsString(workItem.teamId)
       /\ ~(Truthy(workItem.areaPath) /\ IsString(workItem.areaPath))
    THEN workItem.teamId
    ELSE Undef

\* fields?.['System.TeamId'] kept only when a non-empty string.
getWorkItemTeamId(workItem) ==
    IF Truthy(workItem.teamId) /\ IsString(workItem.teamId)
    THEN workItem.teamId
    ELSE Undef

\* A faulty variant of getWorkItemAreaPath: the field is taken whatever its type.
getWorkItemAreaPath_NoTypeCheck(workItem) ==
    IF Truthy(workItem.areaPath) THEN workItem.areaPath ELSE Undef

getWorkItemAreaPath(workItem) ==
    IF Truthy(workItem.areaPath) /\ IsString(workItem.areaPath)
    THEN workItem.areaPath
    ELSE Undef

(* ------------------- plain objects (Record<string, T>) ----------------- *)

\* An object is the sequence of its <<key, value>> properties in insertion
\* order; assigning an existing key keeps its position.
EmptyObj == <<>>

ObjHas(obj, k) == \E i \in 1..Len(obj) : obj[i][1] = k

ObjGet(obj, k) ==
    IF ObjHas(obj, k)
    THEN (CHOOSE e \in {obj[i] : i \in 1..Len(obj)} : e[1] = k)[2]
    ELSE Undef

ObjSet(obj, k, v) ==
    IF ObjHas(obj, k)
    THEN [i \in 1..Len(obj) |-> IF obj[i][1] = k THEN <<k, v>> ELSE obj[i]]
    ELSE Append(obj, <<k, v>>)

Digits == {"0", "1", "2", "3", "4", "5", "6", "7", "8", "9"}

DigitValue(c) ==
    CASE c = "0" -> 0 [] c = "1" -> 1 [] c = "2" -> 2 [] c = "3" -> 3
      [] c = "4" -> 4 [] c = "5" -> 5 [] c = "6" -> 6 [] c = "7" -> 7
      [] c = "8" -> 8 [] OTHER -> 9

\* A canonical array index ("0", "7", "12", not "07"): such keys are listed
\* first, in ascending numeric order, by Object.keys and Object.entries.
IsIndexKey(k) ==
    /\ Len(k) > 0
    /\ \A i \in 1..Len(k) : k[i] \in Digits
    /\ (Len(k) = 1 \/ k[1] # "0")

RECURSIVE IndexValue(_)
IndexValue(k) ==
    IF k = <<>> THEN 0
    ELSE 10 * IndexValue(SubSeq(k, 1, Len(k) - 1)) + DigitValue(k[Len(k)])

RECURSIVE SelectEntries(_, _)
SelectEntries(obj, wantIndex) ==
    IF obj = <<>> THEN <<>>
    ELSE IF IsIndexKey(Head(obj)[1]) = wantIndex
         THEN <<Head(obj)>> \o SelectEntries(Tail(obj), wantIndex)
         ELSE SelectEntries(Tail(obj), wantIndex)

RECURSIVE SortByIndex(_)
SortByIndex(es) ==
    IF es = <<>> THEN <<>>
    ELSE LET m == CHOOSE i \in 1..Len(es) :
                    \A j \in 1..Len(es) :
                        IndexValue(es[i][1]) <= IndexValue(es[j][1])
             rest == [j \in 1..(Len(es) - 1) |->
                        IF j < m THEN es[j] ELSE es[j + 1]]
         IN  <<es[m]>> \o SortByIndex(rest)

\* Object.entries: own properties in the engine's enumeration order.
ObjectEntries(obj) ==
    SortByIndex(SelectEntries(obj, TRUE)) \o SelectEntries(obj, FALSE)

\* Object.keys
ObjectKeys(obj) ==
    LET es == ObjectEntries(obj) IN [i \in 1..Len(es) |-> es[i][1]]

(* ------------------------- the modelled world ------------------------- *)

P == <<"P">>

Q == <<"Q">>

Projects == {P, Q}

\* defaultProject of utils/environment, imported by the router.
defaultProject == P

Team(id, name) == [id |-> id, name |-> name]

\* What coreApi.getTeams(project) returns: WebApiTeam has optional id, name.
InitialTeams ==
    [p \in Projects |->
        IF p = P
        THEN << Team(Str(<<"t1">>), Str(<<"A">>)),
                Team(Str(<<"t2">>), Str(<<"B">>)),
                Team(Str(<<"t3">>), Undef),
                Team(Str(<<"t4">>), Str(<<"2">>)) >>
        ELSE << Team(Str(<<"t5">>), Str(<<"a">>)) >>]

Item(id, teamId, areaPath) ==
    [exists |-> TRUE, id |-> id, teamId |-> teamId, areaPath |-> areaPath]

NoItem == [exists |-> FALSE, id |-> 0, teamId |-> Undef, areaPath |-> Undef]

\* The work items of the service, by id, with the two fields the policy
\* reads: System.TeamId and System.AreaPath.
WorkItemStore ==
    << Item(1, Str(<<"t1">>), Str(<<"P", BS, "B">>)),
       Item(2, Undef, Str(<<"P", BS, "A", BS, "B">>)),
       Item(3, Undef, Str(<<"P">>)),
       Item(4, Str(<<"t9">>), Str(<<"P", BS, "A">>)),
       Item(5, NumVal, Str(<<>>)),
       NoItem,
       Item(7, Undef, Str(<<"P", BS, "B">>)),
       Item(8, Str(<<"t3">>), Undef),
       Item(9, Undef, Str(<<"P", BS>>)),
       Item(10, Str(<<"t2">>), Undef),
       Item(11, Undef, Str(<<"Q", BS, "a">>)),
       Item(12, Str(<<>>), NumVal),
       Item(13, Undef, Undef) >>

ItemIds == 1..Len(WorkItemStore)

\* The work items that update and link requests name.
UpdateIds == {1, 3, 6, 7}

LinkIds == {1, 6, 7, 11}

\* AzureDevOpsConfig as the router sees it: absent, or with an optional
\* allowedTeamBoards string.
NoConfig == [present |-> FALSE, allowedTeamBoards |-> Undef]

Config(raw) == [present |-> TRUE, allowedTeamBoards |-> raw]

RawAllowLists ==
    { Undef,
      Str(<<>>),
      Str(<<" ">>),
      Str(<<",">>),
      Str(<<"A">>),
      Str(<<"a">>),
      Str(<<" ", "A", " ", ",", "B">>),
      Str(<<"A", ",", "2">>),
      Str(<<"B", ",", "A", ",", "b">>),
      Str(<<"C", ",", "A", ",", "Q">>),
      Str(<<"P">>),
      Str(<<"7">>) }

Configs == {NoConfig} \cup {Config(raw) : raw \in RawAllowLists}

ToolNames ==
    { "get_work_item", "list_work_items", "create_work_item",
      "update_work_item", "manage_work_item_link" }

Request(name, workItemId, targetId, projectId, teamId, areaPath, wiql) ==
    [name |-> name, workItemId |-> workItemId, targetId |-> targetId,
     projectId |-> projectId, teamId |-> teamId, areaPath |-> areaPath,
     wiql |-> wiql]

ProjectArgs == {Undef, Str(Q)}

TeamIdArgs == {Undef, Str(<<>>), Str(<<"t1">>), Str(<<"t9">>)}

AreaPathArgs ==
    { Undef, Str(<<>>), Str(<<"P", BS, "A">>), Str(<<"P", BS, "B">>),
      Str(<<"Q", BS, "a">>) }

WiqlArgs == {Undef, Str(<<"SELECT [System.Id] FROM WorkItems">>)}

\* The requests a caller may send (arguments that passed the schemas).
Requests ==
    {Request("get_work_item", i, 0, Undef, Undef, Undef, Undef) :
        i \in ItemIds}
    \cup
    {Request("list_work_items", 0, 0, pr, tm, Undef, w) :
        pr \in ProjectArgs, tm \in TeamIdArgs, w \in WiqlArgs}
    \cup
    {Request("create_work_item", 0, 0, pr, Undef, ap, Undef) :
        pr \in ProjectArgs, ap \in AreaPathArgs}
    \cup
    {Request("update_work_item", i, 0, Undef, Undef, ap, Undef) :
        i \in UpdateIds,
        ap \in {Undef, Str(<<"P", BS, "B">>), Str(<<"P", BS, "A">>)}}
    \cup
    {Request("manage_work_item_link", i, j, pr, Undef, Undef, Undef) :
        i \in LinkIds, j \in LinkIds, pr \in ProjectArgs}

NoRequest == Request("", 0, 0, Undef, Undef, Undef, Undef)

AllTasks == {"task1", "task2"}

(* ------------------------------- state -------------------------------- *)

VARIABLES
    config,     \* the configuration handed to the router; fixed per process
    teams,      \* the service: project -> the teams getTeams returns
    teamCache,  \* the module-level cache: project -> absent or an object
    live,       \* the tasks that take requests
    task,       \* per task: its request and its position in the handler
    probe       \* one application of a pure function: inputs and result

vars == <<config, teams, teamCache, live, task, probe>>

(* ------------------- what a task records of one request ---------------- *)

\* One entry of a task's trace: a call on the client (or an internal step
\* worth dating) with the arguments that matter to the policy.
Call(fn, project, id, id2, teamId, areaPath, wiql) ==
    [fn |-> fn, project |-> project, id |-> id, id2 |-> id2,
     teamId |-> teamId, areaPath |-> areaPath, wiql |-> wiql]

ParseCall == Call("parseAllowedTeamBoards", <<>>, 0, 0, Undef, Undef, Undef)

GetTeamsCall(projectId) ==
    Call("getTeams", projectId, 0, 0, Undef, Undef, Undef)

ValidatedMark(id) == Call("validated", <<>>, id, 0, Undef, Undef, Undef)

NoContent == [src |-> "", item |-> NoItem]

NoOutcome ==
    [kind |-> "none", cls |-> "", reason |-> "", content |-> NoContent,
     teamName |-> <<>>, names |-> <<>>, teams |-> <<>>]

ValidationError == "AzureDevOpsValidationError"

IdleTask ==
    [pc |-> "idle", req |-> NoRequest, project |-> <<>>, phase |-> 0,
     ctx |-> "", item |-> NoItem, teamId |-> Undef, teamName |-> Null,
     teamsData |-> <<>>, trace |-> <<>>, outcome |-> NoOutcome]

Log(o, c) == [o EXCEPT !.trace = Append(@, c)]

\* The handler awaits a client call: the call is made, the task suspends.
IssueCall(o, c) == [Log(o, c) EXCEPT !.pc = c.fn]

\* throw: the handler's promise rejects with an error of class cls.
Fail(o, cls, reason, teamName, names, tms) ==
    [o EXCEPT !.pc = "done",
              !.outcome = [kind |-> "error", cls |-> cls, reason |-> reason,
                           content |-> NoContent, teamName |-> teamName,
                           names |-> names, teams |-> tms]]

Throw(o, reason) == Fail(o, ValidationError, reason, <<>>, <<>>, <<>>)

\* return { content: [...] } built from the result of call src.
Return(o, src, item) ==
    [o EXCEPT !.pc = "done",
              !.outcome = [NoOutcome EXCEPT !.kind = "ok",
                               !.content = [src |-> src, item |-> item]]]

(* ------------------------- team resolver & cache ----------------------- *)

NoCacheEntry == [present |-> FALSE, obj |-> EmptyObj]

\* A faulty variant of CachePut: the project's object is made anew on every
\* write.
CachePut_FreshObject(cache, projectId, key, id) ==
    [cache EXCEPT ![projectId] =
        [present |-> TRUE, obj |-> ObjSet(EmptyObj, key, id)]]

\* if (!teamCache[projectId]) teamCache[projectId] = {};
\* teamCache[projectId][key] = id
CachePut(cache, projectId, key, id) ==
    [cache EXCEPT ![projectId] =
        [present |-> TRUE, obj |-> ObjSet(@.obj, key, id)]]

RECURSIVE FirstNameWithId(_, _)
FirstNameWithId(entries, teamId) ==
    IF entries = <<>> THEN Undef
    ELSE IF Head(entries)[2] = teamId
         THEN Str(Head(entries)[1])
         ELSE FirstNameWithId(Tail(entries), teamId)

\* A faulty variant of CachedTeamName: any entry of the project answers,
\* whatever id it is for.
CachedTeamName_AnyEntry(cache, projectId, teamId) ==
    IF cache[projectId].present /\ cache[projectId].obj # EmptyObj
    THEN Str(ObjectEntries(cache[projectId].obj)[1][1])
    ELSE Undef

\* getTeamNameById, the cache check: the cached name, or undefined on a miss.
CachedTeamName(cache, projectId, teamId) ==
    IF cache[projectId].present
    THEN FirstNameWithId(ObjectEntries(cache[projectId].obj), teamId)
    ELSE Undef

RECURSIVE Find(_, _)
\* teams.find((t) => t.id === teamId): the first such team, or undefined.
Find(ts, teamId) ==
    IF ts = <<>> THEN Team(Undef, Undef)
    ELSE IF Head(ts).id = teamId THEN Head(ts)
    ELSE Find(Tail(ts), teamId)

\* getTeamNameById after the fetch: the name it returns.
FetchedTeamName(allTeams, teamId) ==
    LET team == Find(allTeams, teamId)
    IN  IF Truthy(team.name) /\ Truthy(team.id) THEN team.name ELSE Null

\* A faulty variant of CacheAfterLookup: the project's entry is created
\* before the team is looked for.
CacheAfterLookup_EntryFirst(cache, projectId, allTeams, teamId) ==
    LET team == Find(allTeams, teamId)
        c == [cache EXCEPT ![projectId] = [present |-> TRUE, obj |-> @.obj]]
    IN  IF Truthy(team.name) /\ Truthy(team.id)
        THEN CachePut(c, projectId, ToLowerCase(team.name.s), team.id)
        ELSE c

\* getTeamNameById after the fetch: the cache it leaves.
CacheAfterLookup(cache, projectId, allTeams, teamId) ==
    LET team == Find(allTeams, teamId)
    IN  IF Truthy(team.name) /\ Truthy(team.id)
        THEN CachePut(cache, projectId, ToLowerCase(team.name.s), team.id)
        ELSE cache

RECURSIVE CacheAllTeams(_, _, _)
\* getAllowedTeamIds, the loop over allTeams: the cache it leaves.
CacheAllTeams(cache, projectId, allTeams) ==
    IF allTeams = <<>> THEN cache
    ELSE LET t == Head(allTeams)
             c == IF Truthy(t.name) /\ Truthy(t.id)
                  THEN CachePut(cache, projectId, ToLowerCase(t.name.s), t.id)
                  ELSE cache
         IN  CacheAllTeams(c, projectId, Tail(allTeams))

RECURSIVE BuildTeamMap(_, _)
\* getAllowedTeamIds, the loop over allTeams: teamMap.
BuildTeamMap(teamMap, allTeams) ==
    IF allTeams = <<>> THEN teamMap
    ELSE LET t == Head(allTeams)
             m == IF Truthy(t.name) /\ Truthy(t.id)
                  THEN ObjSet(teamMap, ToLowerCase(t.name.s), t.id)
                  ELSE teamMap
         IN  BuildTeamMap(m, Tail(allTeams))

RECURSIVE ResolveNames_LowerKeys(_, _, _)
\* A faulty variant of ResolveNames: the result is keyed by the lower-cased name.
ResolveNames_LowerKeys(teamMap, names, acc) ==
    IF names = <<>> THEN acc
    ELSE LET teamName == Head(names)
             teamId == ObjGet(teamMap, ToLowerCase(teamName))
             next == IF Truthy(teamId)
                     THEN <<ObjSet(acc[1], ToLowerCase(teamName), teamId),
                            acc[2]>>
                     ELSE <<acc[1], Append(acc[2], teamName)>>
         IN  ResolveNames_LowerKeys(teamMap, Tail(names), next)

RECURSIVE ResolveNames_FirstOnly(_, _, _)
\* A faulty variant of ResolveNames: only the first unmatched name is kept.
ResolveNames_FirstOnly(teamMap, names, acc) ==
    IF names = <<>> THEN acc
    ELSE LET teamName == Head(names)
             teamId == ObjGet(teamMap, ToLowerCase(teamName))
             next == IF Truthy(teamId)
                     THEN <<ObjSet(acc[1], teamName, teamId), acc[2]>>
                     ELSE IF acc[2] = <<>>
                     THEN <<acc[1], <<teamName>> >>
                     ELSE acc
         IN  ResolveNames_FirstOnly(teamMap, Tail(names), next)

RECURSIVE ResolveNames(_, _, _)
\* getAllowedTeamIds, the loop over allowedTeamNames: <<result, notFound>>.
ResolveNames(teamMap, names, acc) ==
    IF names = <<>> THEN acc
    ELSE LET teamName == Head(names)
             teamId == ObjGet(teamMap, ToLowerCase(teamName))
             next == IF Truthy(teamId)
                     THEN <<ObjSet(acc[1], teamName, teamId), acc[2]>>
                     ELSE <<acc[1], Append(acc[2], teamName)>>
         IN  ResolveNames(teamMap, Tail(names), next)

\* allTeams.map((t) => t.name || 'Unknown')
AvailableTeams(allTeams) ==
    [i \in 1..Len(allTeams) |->
        IF Truthy(allTeams[i].name) THEN allTeams[i].name.s
        ELSE <<"Unknown">>]

(* ------------------------- the access decision ------------------------- *)

\* args.projectId ?? defaultProject
ProjectOf(req) ==
    IF req.projectId.ty \in {"undefined", "null"}
    THEN defaultProject
    ELSE req.projectId.s

WitGetWorkItemCall(workItemId) ==
    Call("witApi.getWorkItem", <<>>, workItemId, 0, Undef, Undef, Undef)

ListCall(projectId, teamId, wiql) ==
    Call("listWorkItems", projectId, 0, 0, teamId, Undef, wiql)

\* fetchAndValidateWorkItem up to its await of witApi.getWorkItem.
fetchAndValidateWorkItem(o, projectId, workItemId) ==
    IssueCall([o EXCEPT !.project = projectId],
              WitGetWorkItemCall(workItemId))

\* A faulty variant of AfterValidated: the link is made once the source has passed.
AfterValidated_SourceOnly(o) ==
    LET o1 == Log(o, ValidatedMark(o.item.id))
        req == o.req
    IN  CASE req.name = "get_work_item" ->
                Return(o1, "witApi.getWorkItem", o.item)
          [] req.name = "update_work_item" ->
                IssueCall(o1, Call("updateWorkItem", <<>>, req.workItemId, 0,
                                   Undef, req.areaPath, Undef))
          [] OTHER ->
                IssueCall(o1, Call("manageWorkItemLink", ProjectOf(req),
                                   req.workItemId, req.targetId,
                                   Undef, Undef, Undef))

\* The router after fetchAndValidateWorkItem has returned the work item.
AfterValidated(o) ==
    LET o1 == Log(o, ValidatedMark(o.item.id))
        req == o.req
    IN  CASE req.name = "get_work_item" ->
                Return(o1, "witApi.getWorkItem", o.item)
          [] req.name = "update_work_item" ->
                IssueCall(o1, Call("updateWorkItem", <<>>, req.workItemId, 0,
                                   Undef, req.areaPath, Undef))
          [] req.name = "manage_work_item_link" /\ o.phase = 1 ->
                fetchAndValidateWorkItem([o1 EXCEPT !.phase = 2],
                                         ProjectOf(req), req.targetId)
          [] OTHER ->
                IssueCall(o1, Call("manageWorkItemLink", ProjectOf(req),
                                   req.workItemId, req.targetId,
                                   Undef, Undef, Undef))

\* A faulty variant of WorkItemTeamDecision: the membership test is skipped.
WorkItemTeamDecision_NoCheck(o, teamName) == AfterValidated(o)

\* validateWorkItemTeamAccess from "Check if the team is allowed" on.
WorkItemTeamDecision(o, teamName) ==
    LET allowedTeams == parseAllowedTeamBoards(config.allowedTeamBoards)
    IN  IF ~isTeamAllowed(allowedTeams, teamName)
        THEN Fail(o, ValidationError, "NotInAllowedList", teamName,
                  allowedTeams.list, <<>>)
        ELSE AfterValidated(o)

\* A faulty variant of AfterTeamName: a team that exists may be listed whether
\* or not it is in the allow-list.
AfterTeamName_BoardUnchecked(o, teamName) ==
    LET o1 == [o EXCEPT !.teamName = teamName]
    IN  IF o.ctx = "workItem"
        THEN IF ~Truthy(teamName)
             THEN Throw(o1, "TeamIdNotFound")
             ELSE WorkItemTeamDecision(o1, teamName.s)
        ELSE IF ~Truthy(teamName)
             THEN Throw(o1, "TeamNotFound")
             ELSE IssueCall(o1, ListCall(o.project, o.req.teamId,
                                         o.req.wiql))

\* The caller of getTeamNameById once the name (or null) is known.
AfterTeamName(o, teamName) ==
    LET allowedTeams == parseAllowedTeamBoards(config.allowedTeamBoards)
        o1 == [o EXCEPT !.teamName = teamName]
    IN  IF o.ctx = "workItem"
        THEN IF ~Truthy(teamName)
             THEN Throw(o1, "TeamIdNotFound")
             ELSE WorkItemTeamDecision(o1, teamName.s)
        ELSE IF ~Truthy(teamName)
             THEN Throw(o1, "TeamNotFound")
             ELSE IF ~isTeamAllowed(allowedTeams, teamName.s)
                  THEN Fail(o1, ValidationError, "TeamNotAllowed",
                            teamName.s, allowedTeams.list, <<>>)
                  ELSE IssueCall(o1, ListCall(o.project, o.req.teamId,
                                              o.req.wiql))

\* A faulty variant of getTeamNameById: the cache is not consulted.
getTeamNameById_AlwaysFetches(o, cache, projectId, teamId, ctx) ==
    IssueCall([o EXCEPT !.project = projectId, !.teamId = teamId,
                        !.ctx = ctx],
              GetTeamsCall(projectId))

\* getTeamNameById up to its await of getAllTeams: a cache hit answers at
\* once, a miss makes the fetch.
getTeamNameById(o, cache, projectId, teamId, ctx) ==
    LET o1 == [o EXCEPT !.project = projectId, !.teamId = teamId,
                        !.ctx = ctx]
        hit == CachedTeamName(cache, projectId, teamId)
    IN  IF hit # Undef
        THEN AfterTeamName(o1, hit)
        ELSE IssueCall(o1, GetTeamsCall(projectId))

validateWorkItemTeamAccess(o, cache, projectId, workItem) ==
    LET o1 == Log([o EXCEPT !.item = workItem, !.teamName = Null], ParseCall)
        allowedTeams == parseAllowedTeamBoards(config.allowedTeamBoards)
        workItemTeamId == getWorkItemTeamId(workItem)
        areaPath == getWorkItemAreaPath(workItem)
        teamName == extractTeamNameFromAreaPath(areaPath.s, projectId)
    IN  IF NoAllowedTeams(allowedTeams)
        THEN Throw(o1, "NoAllowList")
        ELSE IF Truthy(workItemTeamId)
        THEN getTeamNameById(o1, cache, projectId, workItemTeamId, "workItem")
        ELSE IF ~Truthy(areaPath)
        THEN Throw(o1, "NoTeamOrAreaPath")
        ELSE IF ~Truthy(teamName)
        THEN Throw(o1, "CouldNotExtractTeam")
        ELSE WorkItemTeamDecision([o1 EXCEPT !.teamName = teamName],
                                  teamName.s)

\* validateTeamBoardAccess; without a teamId it returns once the allow-list
\* is known to be non-empty (the task is handed back still running).
validateTeamBoardAccess(o, cache, projectId, teamId) ==
    LET o1 == Log(o, ParseCall)
        allowedTeams == parseAllowedTeamBoards(config.allowedTeamBoards)
    IN  IF NoAllowedTeams(allowedTeams)
        THEN Throw(o1, "NoAllowList")
        ELSE IF Truthy(teamId)
        THEN getTeamNameById(o1, cache, projectId, teamId, "teamBoard")
        ELSE o1

(* ------------------------------ the router ----------------------------- *)

SelectWiql == "SELECT [System.Id] FROM WorkItems WHERE [System.TeamProject] = '"

AreaPathUnder == "[System.AreaPath] UNDER '"

\* `[System.AreaPath] UNDER '${projectId}\\${teamName}'`
AreaPathCondition(projectId, teamName) ==
    <<AreaPathUnder>> \o projectId \o <<BS>> \o teamName \o <<"'">>

\* The WIQL of the area-path branch of list_work_items.
BuildWiql(projectId, teamsData) ==
    LET keys == ObjectKeys(teamsData)
        areaPathConditions ==
            [i \in 1..Len(keys) |-> AreaPathCondition(projectId, keys[i])]
    IN  <<SelectWiql>> \o projectId \o <<"' AND (">>
            \o Join(areaPathConditions, <<" OR ">>)
            \o <<") ORDER BY [System.Id]">>

\* case 'list_work_items' up to its first await.
ListWorkItemsCase(o, cache) ==
    LET req == o.req
        projectId == ProjectOf(req)
        o1 == Log(o, ParseCall)
        allowedTeams == parseAllowedTeamBoards(config.allowedTeamBoards)
    IN  IF ~config.present
        THEN IssueCall(o, ListCall(projectId, req.teamId, req.wiql))
        ELSE IF NoAllowedTeams(allowedTeams)
        THEN Fail(o1, "Error", "NoAllowList", <<>>, <<>>, <<>>)
        ELSE IF Truthy(req.teamId)
        THEN validateTeamBoardAccess([o1 EXCEPT !.project = projectId],
                                     cache, projectId, req.teamId)
        ELSE IssueCall([o1 EXCEPT !.project = projectId,
                                  !.ctx = "allowedIds"],
                       GetTeamsCall(projectId))

\* A faulty variant of AutoAreaPath: the project prefix is left out.
AutoAreaPath_TeamOnly(projectId, allowedTeams) ==
    Str(allowedTeams.list[1])

\* effectiveAreaPath = `${projectId}\\${allowedTeams[0]}`
AutoAreaPath(projectId, allowedTeams) ==
    Str(projectId \o <<BS>> \o allowedTeams.list[1])

\* A faulty variant of CreateWorkItemCase: with several allowed teams the first one
\* is taken instead of asking for an area path.
CreateWorkItemCase_FirstTeam(o) ==
    LET req == o.req
        projectId == ProjectOf(req)
        o1 == Log(o, ParseCall)
        allowedTeams == parseAllowedTeamBoards(config.allowedTeamBoards)
        CreateCall(areaPath) ==
            Call("createWorkItem", projectId, 0, 0, Undef, areaPath, Undef)
    IN  IF config.present /\ ~Truthy(req.areaPath)
        THEN IF ~allowedTeams.isNull /\ Len(allowedTeams.list) >= 1
             THEN IssueCall(o1, CreateCall(
                      AutoAreaPath(projectId, allowedTeams)))
             ELSE Throw(o1, "NoAllowListCreate")
        ELSE IssueCall(o, CreateCall(req.areaPath))

\* case 'create_work_item' up to its await of createWorkItem.
CreateWorkItemCase(o) ==
    LET req == o.req
        projectId == ProjectOf(req)
        o1 == Log(o, ParseCall)
        allowedTeams == parseAllowedTeamBoards(config.allowedTeamBoards)
        CreateCall(areaPath) ==
            Call("createWorkItem", projectId, 0, 0, Undef, areaPath, Undef)
    IN  IF config.present /\ ~Truthy(req.areaPath)
        THEN IF ~allowedTeams.isNull /\ Len(allowedTeams.list) = 1
             THEN IssueCall(o1, CreateCall(
                      AutoAreaPath(projectId, allowedTeams)))
             ELSE IF ~allowedTeams.isNull /\ Len(allowedTeams.list) > 1
             THEN Fail(o1, ValidationError, "MultipleTeamBoards", <<>>,
                       allowedTeams.list, <<>>)
             ELSE Throw(o1, "NoAllowListCreate")
        ELSE IssueCall(o, CreateCall(req.areaPath))

\* The switch of handleWorkItemsRequest, each case up to its first await.
Dispatch(o, cache) ==
    LET req == o.req
    IN  CASE req.name = "get_work_item" ->
                IF config.present
                THEN fetchAndValidateWorkItem(o, defaultProject,
                                              req.workItemId)
                ELSE IssueCall(o, Call("getWorkItem", <<>>, req.workItemId,
                                       0, Undef, Undef, Undef))
          [] req.name = "list_work_items" -> ListWorkItemsCase(o, cache)
          [] req.name = "create_work_item" -> CreateWorkItemCase(o)
          [] req.name = "update_work_item" ->
                IF config.present
                THEN fetchAndValidateWorkItem(o, defaultProject,
                                              req.workItemId)
                ELSE IssueCall(o, Call("updateWorkItem", <<>>,
                                       req.workItemId, 0, Undef,
                                       req.areaPath, Undef))
          [] OTHER ->
                IF config.present
                THEN fetchAndValidateWorkItem(o, ProjectOf(req),
                                              req.workItemId)
                ELSE IssueCall(o, Call("manageWorkItemLink", ProjectOf(req),
                                       req.workItemId, req.targetId,
                                       Undef, Undef, Undef))

\* A faulty variant of handleWorkItemsRequest: the first check runs without a config.
handleWorkItemsRequest_AlwaysChecks(req, cache) ==
    LET o == [IdleTask EXCEPT !.pc = "running", !.req = req, !.phase = 1]
        checked == validateTeamBoardAccess(o, cache, defaultProject, Undef)
    IN  IF checked.pc = "done" THEN checked ELSE Dispatch(checked, cache)

\* A faulty variant of handleWorkItemsRequest: the first check is left out.
handleWorkItemsRequest_NoFirstCheck(req, cache) ==
    Dispatch([IdleTask EXCEPT !.pc = "running", !.req = req, !.phase = 1],
             cache)

\* handleWorkItemsRequest from its entry to its first await (or its end).
handleWorkItemsRequest(req, cache) ==
    LET o == [IdleTask EXCEPT !.pc = "running", !.req = req, !.phase = 1]
        checked == validateTeamBoardAccess(o, cache, defaultProject, Undef)
    IN  IF config.present
        THEN IF checked.pc = "done" THEN checked ELSE Dispatch(checked, cache)
        ELSE Dispatch(o, cache)

(* ---------------------- a team fetch that rejects ---------------------- *)

\* The trace entry of a getTeams call that rejected.
RejectedMark == Call("getTeams.rejected", <<>>, 0, 0, Undef, Undef, Undef)

\* A faulty variant of GetAllTeamsRejected: the catch block answers with no
\* teams, so the team is reported as not found.
GetAllTeamsRejected_NoTeams(o) == AfterTeamName(Log(o, RejectedMark), Null)

\* getAllTeams, the catch block: the rejection is thrown again as a
\* validation error, which getTeamNameById and its callers let through.
GetAllTeamsRejected(o) == Throw(Log(o, RejectedMark), "FailedToGetTeams")

\* getAllowedTeamIds has no catch: the rejection of getTeams leaves it, and
\* the router, as it is.
GetTeamsRejected(o) ==
    Fail(Log(o, RejectedMark), "ClientError", "GetTeamsFailed",
         <<>>, <<>>, <<>>)

(* ------------------------------- actions ------------------------------- *)

\* One application of a pure function: its arguments by type (an optional
\* string, a string array or null, two strings) and its result by type.
Probe(fn, raw, list, a, b) ==
    [fn |-> fn, raw |-> raw, list |-> list, a |-> a, b |-> b,
     out |-> Undef, outList |-> NullList, outBool |-> FALSE, done |-> FALSE]

\* No pure function is being applied apart from the handlers.
NoProbe == Probe("", Undef, NullList, <<>>, <<>>)

Init ==
    /\ config \in Configs
    /\ teams = InitialTeams
    /\ teamCache = [p \in Projects |-> NoCacheEntry]
    /\ live = {"task1"}
    /\ task = [t \in AllTasks |-> IdleTask]
    /\ probe = NoProbe

\* A request arrives at a task that is not serving one.
Begin(t) ==
    /\ t \in live
    /\ task[t].pc = "idle"
    /\ \E req \in Requests :
          task' = [task EXCEPT ![t] = handleWorkItemsRequest(req, teamCache)]
    /\ UNCHANGED <<config, teams, teamCache, live, probe>>

\* witApi.getWorkItem settles inside fetchAndValidateWorkItem.
GetWorkItemReturns(t) ==
    /\ task[t].pc = "witApi.getWorkItem"
    /\ \E ok \in BOOLEAN :
          LET o == task[t]
              workItem == WorkItemStore[o.trace[Len(o.trace)].id]
          IN  task' = [task EXCEPT ![t] =
                IF ~ok
                THEN Fail(o, "ClientError", "GetWorkItemFailed",
                          <<>>, <<>>, <<>>)
                ELSE IF ~workItem.exists
                THEN Throw(o, "WorkItemNotFound")
                ELSE validateWorkItemTeamAccess(o, teamCache, o.project,
                                                workItem)]
    /\ UNCHANGED <<config, teams, teamCache, live, probe>>

\* getAllTeams settles inside getTeamNameById.
GetTeamsForIdReturns(t) ==
    /\ task[t].pc = "getTeams"
    /\ task[t].ctx \in {"workItem", "teamBoard"}
    /\ \E ok \in BOOLEAN :
          LET o == task[t]
              allTeams == teams[o.project]
          IN  IF ~ok
              THEN /\ task' = [task EXCEPT ![t] = GetAllTeamsRejected(o)]
                   /\ UNCHANGED teamCache
              ELSE /\ teamCache' = CacheAfterLookup(teamCache, o.project,
                                                    allTeams, o.teamId)
                   /\ task' = [task EXCEPT ![t] =
                          AfterTeamName(o, FetchedTeamName(allTeams,
                                                           o.teamId))]
    /\ UNCHANGED <<config, teams, live, probe>>

\* coreApi.getTeams settles inside getAllowedTeamIds.
GetTeamsForAllowedReturns(t) ==
    /\ task[t].pc = "getTeams"
    /\ task[t].ctx = "allowedIds"
    /\ \E ok \in BOOLEAN :
          LET o == task[t]
              allTeams == teams[o.project]
              allowedTeams ==
                  parseAllowedTeamBoards(config.allowedTeamBoards)
              teamMap == BuildTeamMap(EmptyObj, allTeams)
              resolved == ResolveNames(teamMap, allowedTeams.list,
                                       <<EmptyObj, <<>>>>)
              teamsData == resolved[1]
              notFound == resolved[2]
          IN  IF ~ok
              THEN /\ task' = [task EXCEPT ![t] = GetTeamsRejected(o)]
                   /\ UNCHANGED teamCache
              ELSE /\ teamCache' = CacheAllTeams(teamCache, o.project,
                                                 allTeams)
                   /\ task' = [task EXCEPT ![t] =
                          IF Len(notFound) > 0
                          THEN Fail(o, ValidationError, "TeamBoardsNotFound",
                                    <<>>, notFound, AvailableTeams(allTeams))
                          ELSE IssueCall([o EXCEPT !.teamsData = teamsData],
                                   ListCall(o.project, Undef,
                                      Str(BuildWiql(o.project, teamsData))))]
    /\ UNCHANGED <<config, teams, live, probe>>

FinalCalls ==
    { "getWorkItem", "listWorkItems", "createWorkItem", "updateWorkItem",
      "manageWorkItemLink" }

\* The work-item operation the router forwarded to settles.
ClientCallReturns(t) ==
    /\ task[t].pc \in FinalCalls
    /\ \E ok \in BOOLEAN :
          LET o == task[t]
          IN  task' = [task EXCEPT ![t] =
                IF ok
                THEN Return(o, o.pc,
                            IF o.pc = "getWorkItem"
                            THEN WorkItemStore[o.req.workItemId]
                            ELSE NoItem)
                ELSE Fail(o, "ClientError", "ClientCallFailed",
                          <<>>, <<>>, <<>>)]
    /\ UNCHANGED <<config, teams, teamCache, live, probe>>

\* The settled promise is handed to the transport; the task is free again.
Respond(t) ==
    /\ task[t].pc = "done"
    /\ task' = [task EXCEPT ![t] = IdleTask]
    /\ UNCHANGED <<config, teams, teamCache, live, probe>>

Next ==
    \E t \in AllTasks :
        \/ Begin(t)
        \/ Respond(t)
        \/ GetWorkItemReturns(t)
        \/ GetTeamsForIdReturns(t)
        \/ GetTeamsForAllowedReturns(t)
        \/ ClientCallReturns(t)

Spec == Init /\ [][Next]_vars

(* ------------------ the service renames a team meanwhile --------------- *)

\* The names a team may be given after the process has started.
NewTeamNames == {Str(<<"C">>), Str(<<"1">>)}

\* teams with the i-th team of the project under another name.
Renamed(ts, projectId, i, name) ==
    [ts EXCEPT ![projectId][i] = Team(@.id, name)]

\* The team lists coreApi.getTeams may return over the life of the process.
TeamLists ==
    {InitialTeams} \cup
    { Renamed(InitialTeams, defaultProject, i, name) :
        i \in {j \in 1..Len(InitialTeams[defaultProject]) :
                  Truthy(InitialTeams[defaultProject][j].name)},
        name \in NewTeamNames }

\* Somebody renames a team of the project in the service: later getTeams
\* calls return the new name under the same id. The process is not told.
RenameTeam ==
    /\ teams = InitialTeams
    /\ teams' \in TeamLists \ {InitialTeams}
    /\ UNCHANGED <<config, teamCache, live, task, probe>>

NextRename == Next \/ RenameTeam

RenameSpec == Init /\ [][NextRename]_vars

(* ------------------ two requests in flight at the same time ------------ *)

\* The configurations and requests of the runs with two tasks.
ConcConfigs ==
    { Config(Str(<<"A">>)), Config(Str(<<"B", ",", "A", ",", "b">>)),
      Config(Str(<<"C", ",", "A", ",", "Q">>)) }

ConcRequests ==
    {Request("get_work_item", i, 0, Undef, Undef, Undef, Undef) :
        i \in {1, 4, 7, 10}}
    \cup
    {Request("list_work_items", 0, 0, Undef, tm, Undef, Undef) :
        tm \in {Undef, Str(<<"t1">>), Str(<<"t9">>)}}
    \cup
    {Request("list_work_items", 0, 0, Str(Q), Str(<<"t1">>), Undef, Undef),
     Request("update_work_item", 1, 0, Undef, Undef, Undef, Undef),
     Request("manage_work_item_link", 1, 7, Undef, Undef, Undef, Undef)}

EmptyTeamCache == [p \in Projects |-> NoCacheEntry]

\* Both tasks take requests: a handler that awaits leaves the event loop to
\* the other one, and both read and write the one teamCache.
InitConc ==
    /\ config \in ConcConfigs
    /\ teams = InitialTeams
    /\ teamCache = EmptyTeamCache
    /\ live = AllTasks
    /\ task = [t \in AllTasks |-> IdleTask]
    /\ probe = NoProbe

BeginConc(t) ==
    /\ t \in live
    /\ task[t].pc = "idle"
    /\ \E req \in ConcRequests :
          task' = [task EXCEPT ![t] = handleWorkItemsRequest(req, teamCache)]
    /\ UNCHANGED <<config, teams, teamCache, live, probe>>

NextConc ==
    \E t \in AllTasks :
        \/ BeginConc(t)
        \/ Respond(t)
        \/ GetWorkItemReturns(t)
        \/ GetTeamsForIdReturns(t)
        \/ GetTeamsForAllowedReturns(t)
        \/ ClientCallReturns(t)

ConcSpec == InitConc /\ [][NextConc]_vars

(* ------------- the pure functions applied to bounded inputs ------------ *)

MaxRawLen == 5

MaxListLen == 2

MaxPathLen == 5

SeqsUpTo(S, n) == UNION {[1..k -> S] : k \in 0..n}

\* allowedTeamBoards?: string
RawInputs ==
    {Undef} \cup {Str(s) : s \in SeqsUpTo({Space, Comma, "A", "b"}, MaxRawLen)}

TeamNameInputs ==
    { <<"A">>, <<"a">>, <<"B">>, <<"A", "b">>, <<"a", "B">>, <<"a", "b">> }

\* allowedTeamBoards: string[] | null
AllowListInputs ==
    {NullList} \cup {ListOf(l) : l \in SeqsUpTo(TeamNameInputs, MaxListLen)}

AreaPathInputs == SeqsUpTo({"P", BS, "A"}, MaxPathLen)

ProjectInputs == {<<"P">>, <<"P", "A">>}

ProbeInputs ==
    {Probe("parseAllowedTeamBoards", raw, NullList, <<>>, <<>>) :
        raw \in RawInputs}
    \cup
    {Probe("isTeamAllowed", Undef, l, n, <<>>) :
        l \in AllowListInputs, n \in TeamNameInputs}
    \cup
    {Probe("extractTeamNameFromAreaPath", Undef, NullList, a, pr) :
        a \in AreaPathInputs, pr \in ProjectInputs}

InitPure ==
    /\ config = NoConfig
    /\ teams = InitialTeams
    /\ teamCache = [p \in Projects |-> NoCacheEntry]
    /\ live = {}
    /\ task = [t \in AllTasks |-> IdleTask]
    /\ probe \in ProbeInputs

ApplyParseAllowedTeamBoards ==
    /\ probe.fn = "parseAllowedTeamBoards"
    /\ ~probe.done
    /\ probe' = [probe EXCEPT !.outList = parseAllowedTeamBoards(probe.raw),
                              !.done = TRUE]
    /\ UNCHANGED <<config, teams, teamCache, live, task>>

ApplyIsTeamAllowed ==
    /\ probe.fn = "isTeamAllowed"
    /\ ~probe.done
    /\ probe' = [probe EXCEPT !.outBool = isTeamAllowed(probe.list, probe.a),
                              !.done = TRUE]
    /\ UNCHANGED <<config, teams, teamCache, live, task>>

ApplyExtractTeamNameFromAreaPath ==
    /\ probe.fn = "extractTeamNameFromAreaPath"
    /\ ~probe.done
    /\ probe' = [probe EXCEPT
                    !.out = extractTeamNameFromAreaPath(probe.a, probe.b),
                    !.done = TRUE]
    /\ UNCHANGED <<config, teams, teamCache, live, task>>

NextPure ==
    \/ ApplyParseAllowedTeamBoards
    \/ ApplyIsTeamAllowed
    \/ ApplyExtractTeamNameFromAreaPath

PureSpec == InitPure /\ [][NextPure]_vars

(* ======================= properties of the program ===================== *)

Range(f) == {f[i] : i \in DOMAIN f}

\* The names an allow-list string grants, lower-cased: the comma-separated
\* pieces, stripped of surrounding blanks, that are not empty.
AllowedNames(raw) ==
    IF raw.ty # "string" THEN {}
    ELSE {Trim(piece) : piece \in Range(Split(raw.s, Comma))} \ {<<>>}

AllowedNamesLower(raw) == {ToLowerCase(n) : n \in AllowedNames(raw)}

\* An allow-list that is absent, blank, or made of separators only.
GrantsNothing(raw) ==
    \/ raw.ty # "string"
    \/ \A i \in 1..Len(raw.s) : raw.s[i] \in {Space, Comma}

\* The calls that read or change work items.
WorkItemCalls ==
    { "witApi.getWorkItem", "getWorkItem", "listWorkItems", "createWorkItem",
      "updateWorkItem", "manageWorkItemLink" }

CallsOf(o, fns) == {i \in 1..Len(o.trace) : o.trace[i].fn \in fns}

Serving(t) == task[t].pc # "idle"

Settled(t) == task[t].pc = "done"

\* C1: under a configuration whose allowedTeamBoards is absent, blank or
\* holds no name, every work-item operation ends at once in the
\* "no team boards are configured" denial and no fetch, query, create,
\* update or link call is made on the client.
C1_EmptyAllowListDeniesAll ==
    \A t \in AllTasks :
        (config.present /\ GrantsNothing(config.allowedTeamBoards)
            /\ Serving(t))
        => /\ Settled(t)
           /\ task[t].outcome.kind = "error"
           /\ task[t].outcome.reason = "NoAllowList"
           /\ task[t].outcome.content = NoContent
           /\ CallsOf(task[t], WorkItemCalls \cup {"getTeams"}) = {}

C1_Witness ==
    \E t \in AllTasks :
        /\ config = Config(Str(<<",">>))
        /\ Settled(t)
        /\ task[t].req.name = "create_work_item"
        /\ Truthy(task[t].req.areaPath)
        /\ task[t].outcome.reason = "NoAllowList"

LastIndex(trace, fn) ==
    LET S == {i \in 1..Len(trace) : trace[i].fn = fn}
    IN  IF S = {} THEN 0 ELSE CHOOSE i \in S : \A j \in S : j <= i

\* validateWorkItemTeamAccess has returned normally for the task's work item.
ItemAllowed(o) ==
    /\ o.item.exists
    /\ LastIndex(o.trace, "validated")
          > LastIndex(o.trace, "parseAllowedTeamBoards")

\* validateWorkItemTeamAccess has thrown for the task's work item.
ItemDenied(o) ==
    /\ o.item.exists
    /\ o.pc = "done"
    /\ ~ItemAllowed(o)

UsableString(x) == x.ty = "string" /\ x.s # <<>>

\* The names the service gives to the team with this id.
ServiceTeamNames(projectId, teamId) ==
    {tm.name.s : tm \in {x \in Range(teams[projectId]) :
                            x.id = teamId /\ UsableString(x.name)}}

\* The first segment of an area path once a leading "project\" is dropped.
TeamSegment(areaPath, projectId) ==
    LET rest == IF StartsWith(areaPath, projectId \o <<BS>>)
                THEN SubSeq(areaPath, Len(projectId) + 2, Len(areaPath))
                ELSE areaPath
        stops == {i \in 1..Len(rest) : rest[i] = BS} \cup {Len(rest) + 1}
        stop == CHOOSE i \in stops : \A j \in stops : i <= j
    IN  SubSeq(rest, 1, stop - 1)

\* The team names a work item can stand for in a project: by its
\* System.TeamId when it has one, else by its System.AreaPath.
ItemTeamNames(item, projectId) ==
    IF UsableString(item.teamId)
    THEN ServiceTeamNames(projectId, item.teamId)
    ELSE IF UsableString(item.areaPath)
    THEN {TeamSegment(item.areaPath.s, projectId)} \ {<<>>}
    ELSE {}

\* C2: validateWorkItemTeamAccess returns normally exactly when the
\* allow-list is not empty and the team name it resolved for the work item
\* equals an allow-list entry up to letter case; the resolved name is the
\* work item's team; a work item whose System.TeamId the service resolves
\* to an allowed team is allowed unless the team fetch itself failed. The
\* decision reads the configured names only through their lower-case form.
C2_AllowIffResolvedNameListed ==
    \A t \in AllTasks :
        LET o == task[t]
            listed == AllowedNamesLower(config.allowedTeamBoards)
        IN  (ItemAllowed(o) \/ ItemDenied(o))
            => /\ ItemAllowed(o)
                    <=> /\ listed # {}
                        /\ Truthy(o.teamName)
                        /\ ToLowerCase(o.teamName.s) \in listed
               /\ Truthy(o.teamName)
                    => ToLowerCase(o.teamName.s) \in
                         {ToLowerCase(n) :
                            n \in ItemTeamNames(o.item, o.project)}
               /\ ( /\ UsableString(o.item.teamId)
                    /\ \E n \in ServiceTeamNames(o.project, o.item.teamId) :
                          ToLowerCase(n) \in listed
                    /\ o.outcome.reason # "FailedToGetTeams" )
                    => ItemAllowed(o)

C2_Witness ==
    \E t \in AllTasks :
        /\ config = Config(Str(<<"a">>))
        /\ task[t].item.id = 1
        /\ ItemAllowed(task[t])
        /\ task[t].teamName = Str(<<"A">>)

\* C3: with a config, get_work_item and update_work_item fetch the work item
\* first and validate it next. The validation passes only after the fetch
\* of that item and only for an item of an allowed team; content is
\* returned, and updateWorkItem is called, only after the validation has
\* passed; when the validation denies, the operation ends in an error with
\* no content and no update call.
C3_FetchValidateThenAct ==
    \A t \in AllTasks :
        LET o == task[t]
            tr == o.trace
            fetched == {i \in 1..Len(tr) :
                          /\ tr[i].fn = "witApi.getWorkItem"
                          /\ tr[i].id = o.req.workItemId}
            passed == {i \in 1..Len(tr) :
                          /\ tr[i].fn = "validated"
                          /\ tr[i].id = o.req.workItemId}
            updates == CallsOf(o, {"updateWorkItem"})
        IN  (config.present
               /\ o.req.name \in {"get_work_item", "update_work_item"})
            => /\ \A j \in passed : \E i \in fetched : i < j
               /\ passed # {}
                    => \E n \in ItemTeamNames(o.item, defaultProject) :
                          ToLowerCase(n) \in
                             AllowedNamesLower(config.allowedTeamBoards)
               /\ \A k \in updates : \E j \in passed : j < k
               /\ CallsOf(o, {"getWorkItem"}) = {}
               /\ o.outcome.kind = "ok"
                    => /\ passed # {}
                       /\ o.req.name = "get_work_item"
                            => /\ o.outcome.content.src = "witApi.getWorkItem"
                               /\ o.outcome.content.item
                                     = WorkItemStore[o.req.workItemId]
               /\ ItemDenied(o)
                    => /\ o.outcome.kind = "error"
                       /\ o.outcome.content = NoContent
                       /\ updates = {}

C3_Witness ==
    \E t \in AllTasks :
        /\ config = Config(Str(<<"A">>))
        /\ task[t].req.name = "update_work_item"
        /\ task[t].req.workItemId = 7
        /\ ItemDenied(task[t])
        /\ task[t].outcome.reason = "NotInAllowedList"

\* The work item of this id exists and belongs to an allowed team.
PolicyAllows(id, projectId) ==
    /\ WorkItemStore[id].exists
    /\ \E n \in ItemTeamNames(WorkItemStore[id], projectId) :
          ToLowerCase(n) \in AllowedNamesLower(config.allowedTeamBoards)

\* C4: with a config, manage_work_item_link calls manageWorkItemLink only
\* after the source and then the target were each fetched and validated,
\* and only when both exist and belong to allowed teams; an operation that
\* ends in a denial, a not-found or a failed validation made no link call.
C4_LinkOnlyAfterBothValidated ==
    \A t \in AllTasks :
        LET o == task[t]
            tr == o.trace
            links == CallsOf(o, {"manageWorkItemLink"})
            Fetch(id, lo, hi) ==
                \E i \in 1..Len(tr) :
                    /\ lo < i /\ i < hi
                    /\ tr[i].fn = "witApi.getWorkItem" /\ tr[i].id = id
            project == ProjectOf(o.req)
        IN  (config.present /\ o.req.name = "manage_work_item_link")
            => /\ \A k \in links :
                    /\ \E i \in 1..Len(tr), j \in 1..Len(tr) :
                          /\ i < j /\ j < k
                          /\ tr[i] = ValidatedMark(o.req.workItemId)
                          /\ tr[j] = ValidatedMark(o.req.targetId)
                          /\ Fetch(o.req.workItemId, 0, i)
                          /\ Fetch(o.req.targetId, i, j)
                    /\ PolicyAllows(o.req.workItemId, project)
                    /\ PolicyAllows(o.req.targetId, project)
                    /\ tr[k].id = o.req.workItemId
                    /\ tr[k].id2 = o.req.targetId
               /\ ( /\ o.outcome.kind = "error"
                    /\ o.outcome.reason # "ClientCallFailed" )
                    => links = {}
               /\ ( Settled(t)
                    /\ ( ~PolicyAllows(o.req.workItemId, project)
                          \/ ~PolicyAllows(o.req.targetId, project) ) )
                    => o.outcome.kind = "error" /\ links = {}

C4_Witness ==
    \E t \in AllTasks :
        /\ config = Config(Str(<<"A">>))
        /\ task[t].req.name = "manage_work_item_link"
        /\ task[t].req.workItemId = 1
        /\ task[t].req.targetId = 7
        /\ Settled(t)
        /\ LastIndex(task[t].trace, "validated") > 0
        /\ task[t].outcome.reason = "NotInAllowedList"

\* The entries of an allow-list string, one per non-blank piece.
EntryCount(raw) ==
    IF raw.ty # "string" THEN 0
    ELSE LET parts == Split(raw.s, Comma)
         IN  Cardinality({i \in 1..Len(parts) : Trim(parts[i]) # <<>>})

Creates(o) == CallsOf(o, {"createWorkItem"})

\* C5: with a config and a non-empty allow-list, create_work_item with an
\* explicit area path reaches createWorkItem only when the team that area
\* path names (its first segment after the project prefix) is in the
\* allow-list, and is denied otherwise.
C5_ExplicitAreaPathMustBeAllowed ==
    \A t \in AllTasks :
        LET o == task[t]
            listed == AllowedNamesLower(config.allowedTeamBoards)
            team == TeamSegment(o.req.areaPath.s, ProjectOf(o.req))
        IN  (config.present /\ listed # {}
               /\ o.req.name = "create_work_item"
               /\ Truthy(o.req.areaPath))
            => /\ Creates(o) # {} => ToLowerCase(team) \in listed
               /\ (Settled(t) /\ ToLowerCase(team) \notin listed)
                    => /\ o.outcome.kind = "error"
                       /\ o.outcome.cls = ValidationError

\* C6: with a config whose allow-list has two or more entries, a
\* create_work_item request without an area path ends at once in the
\* "multiple team boards" validation error and createWorkItem is not called.
C6_AmbiguousCreateRejected ==
    \A t \in AllTasks :
        LET o == task[t]
        IN  (config.present
               /\ EntryCount(config.allowedTeamBoards) >= 2
               /\ o.req.name = "create_work_item"
               /\ ~Truthy(o.req.areaPath))
            => /\ Settled(t)
               /\ o.outcome.kind = "error"
               /\ o.outcome.cls = ValidationError
               /\ o.outcome.reason = "MultipleTeamBoards"
               /\ Creates(o) = {}

C6_Witness ==
    \E t \in AllTasks :
        /\ config = Config(Str(<<"A", ",", "2">>))
        /\ task[t].req.name = "create_work_item"
        /\ task[t].req.areaPath = Undef
        /\ task[t].req.projectId = Str(Q)
        /\ task[t].outcome.reason = "MultipleTeamBoards"

\* C7: with a config whose allow-list has exactly one entry T, a
\* create_work_item request for project P without an area path calls
\* createWorkItem once, for P, with the area path "P\T"; a request with an
\* area path has it passed on as given; no create call without an area
\* path is made under any other allow-list.
C7_SingleTeamAreaPathAutoSet ==
    \A t \in AllTasks :
        LET o == task[t]
            tr == o.trace
            project == ProjectOf(o.req)
            names == AllowedNames(config.allowedTeamBoards)
            single == EntryCount(config.allowedTeamBoards) = 1
        IN  (config.present /\ o.req.name = "create_work_item"
               /\ Serving(t))
            => /\ Cardinality(Creates(o)) <= 1
               /\ \A k \in Creates(o) :
                    /\ tr[k].project = project
                    /\ IF Truthy(o.req.areaPath)
                       THEN tr[k].areaPath = o.req.areaPath
                       ELSE /\ single
                            /\ \E T \in names :
                                  tr[k].areaPath
                                     = Str(project \o <<BS>> \o T)
               /\ (single /\ ~Truthy(o.req.areaPath)) => Creates(o) # {}

C7_Witness ==
    \E t \in AllTasks :
        /\ config = Config(Str(<<"a">>))
        /\ task[t].req.name = "create_work_item"
        /\ task[t].req.areaPath = Undef
        /\ task[t].req.projectId = Str(Q)
        /\ Settled(t)
        /\ task[t].outcome.kind = "ok"
        /\ \E k \in Creates(task[t]) :
              task[t].trace[k].areaPath = Str(<<"Q", BS, "a">>)

\* The allow-list names in the order written, blanks dropped.
NamesInOrder(raw) ==
    LET parts == Split(raw.s, Comma)
        trimmed == [i \in 1..Len(parts) |-> Trim(parts[i])]
    IN  SelectSeq(trimmed, LAMBDA n : n # <<>>)

RECURSIVE KeyedBy(_, _)
KeyedBy(names, obj) ==
    IF names = <<>> THEN obj
    ELSE KeyedBy(Tail(names), ObjSet(obj, Head(names), Undef))

\* The query that scopes a listing of a project to the allow-list: one
\* clause per name, in the order an object keyed by the names lists them.
ExpectedClauses(projectId, raw) ==
    LET keys == ObjectKeys(KeyedBy(NamesInOrder(raw), EmptyObj))
    IN  [i \in 1..Len(keys) |->
            <<"[System.AreaPath] UNDER '">> \o projectId \o <<BS>>
                \o keys[i] \o <<"'">>]

ExpectedWiql(projectId, raw) ==
    << "SELECT [System.Id] FROM WorkItems WHERE [System.TeamProject] = '" >>
        \o projectId \o <<"' AND (">>
        \o Join(ExpectedClauses(projectId, raw), <<" OR ">>)
        \o <<") ORDER BY [System.Id]">>

\* Every allow-list name is the name of a team of the project.
AllNamesExist(projectId, raw) ==
    \A n \in AllowedNames(raw) :
        \E tm \in Range(teams[projectId]) :
            /\ UsableString(tm.name) /\ UsableString(tm.id)
            /\ ToLowerCase(tm.name.s) = ToLowerCase(n)

Lists(o) == CallsOf(o, {"listWorkItems"})

\* C8: with a config and no teamId, list_work_items for project P makes at
\* most one listing query, after one team fetch and as its last call; the
\* query is "project = P AND (area path under P\N1 OR ...)" with one
\* clause per distinct allow-list name and no other clause, in the key
\* order of the name-to-id mapping; it carries no teamId and not the
\* caller's wiql; its result is the content returned. The query is made
\* whenever every allow-list name exists in P and the team fetch succeeds.
C8_ListScopedToAllowList ==
    \A t \in AllTasks :
        LET o == task[t]
            tr == o.trace
            raw == config.allowedTeamBoards
            project == ProjectOf(o.req)
            clauses == ExpectedClauses(project, raw)
        IN  (config.present /\ o.req.name = "list_work_items"
               /\ ~Truthy(o.req.teamId) /\ Serving(t))
            => /\ Cardinality(Lists(o)) <= 1
               /\ \A k \in Lists(o) :
                    /\ tr[k] = ListCall(project, Undef,
                                        Str(ExpectedWiql(project, raw)))
                    /\ k = Len(tr)
                    /\ Cardinality(CallsOf(o, {"getTeams"})) = 1
                    /\ Len(clauses) = Cardinality(AllowedNames(raw))
                    /\ Range(clauses) =
                          { <<AreaPathUnder>> \o project \o <<BS>> \o n
                                \o <<"'">> : n \in AllowedNames(raw) }
                    /\ AllNamesExist(project, raw)
               /\ o.outcome.kind = "ok"
                    => /\ Lists(o) # {}
                       /\ o.outcome.content.src = "listWorkItems"
               /\ ( /\ Settled(t)
                    /\ AllowedNames(raw) # {}
                    /\ AllNamesExist(project, raw)
                    /\ o.outcome.reason # "GetTeamsFailed" )
                    => Lists(o) # {}

C8_Witness ==
    \E t \in AllTasks :
        /\ config = Config(Str(<<"A", ",", "2">>))
        /\ task[t].req.name = "list_work_items"
        /\ task[t].req.teamId = Undef
        /\ task[t].req.wiql # Undef
        /\ task[t].outcome.kind = "ok"
        /\ \E k \in Lists(task[t]) :
              task[t].trace[k].wiql =
                 Str(<< SelectWiql, "P", "' AND (",
                        AreaPathUnder, "P", BS, "2", "'", " OR ",
                        AreaPathUnder, "P", BS, "A", "'",
                        ") ORDER BY [System.Id]" >>)

\* The client operation a request stands for, with the request's arguments.
Forwarded(req) ==
    CASE req.name = "get_work_item" ->
            Call("getWorkItem", <<>>, req.workItemId, 0, Undef, Undef, Undef)
      [] req.name = "list_work_items" ->
            Call("listWorkItems", ProjectOf(req), 0, 0, req.teamId, Undef,
                 req.wiql)
      [] req.name = "create_work_item" ->
            Call("createWorkItem", ProjectOf(req), 0, 0, Undef, req.areaPath,
                 Undef)
      [] req.name = "update_work_item" ->
            Call("updateWorkItem", <<>>, req.workItemId, 0, Undef,
                 req.areaPath, Undef)
      [] OTHER ->
            Call("manageWorkItemLink", ProjectOf(req), req.workItemId,
                 req.targetId, Undef, Undef, Undef)

\* C9: without a config every operation goes straight to its client
\* operation: the only call is that operation with the request's
\* arguments, so the allow-list is not parsed and no team is fetched; the
\* operation ends with the client's result or the client's own error,
\* never with a validation error; the team cache stays as it was.
C9_NoConfigBypassesChecks ==
    \A t \in AllTasks :
        LET o == task[t]
        IN  (~config.present /\ Serving(t))
            => /\ o.trace = <<Forwarded(o.req)>>
               /\ o.pc \in {Forwarded(o.req).fn, "done"}
               /\ Settled(t)
                    => \/ /\ o.outcome.kind = "ok"
                          /\ o.outcome.content.src = Forwarded(o.req).fn
                       \/ /\ o.outcome.kind = "error"
                          /\ o.outcome.cls = "ClientError"
                          /\ o.outcome.reason = "ClientCallFailed"
               /\ teamCache = [p \in Projects |-> NoCacheEntry]

C9_Witness ==
    \E t \in AllTasks :
        /\ ~config.present
        /\ task[t].req.name = "update_work_item"
        /\ task[t].req.workItemId = 7
        /\ Truthy(task[t].req.areaPath)
        /\ Settled(t)
        /\ task[t].outcome.kind = "ok"

\* C10: a work item without System.TeamId whose System.AreaPath is the
\* project name alone has no team name, and validateWorkItemTeamAccess
\* denies it with the "could not extract team name" reason under every
\* allow-list.
C10_ProjectOnlyAreaPathIndeterminate ==
    \A t \in AllTasks :
        LET o == task[t]
        IN  ( /\ ItemAllowed(o) \/ ItemDenied(o)
              /\ ~UsableString(o.item.teamId)
              /\ o.item.areaPath = Str(o.project) )
            => /\ ItemDenied(o)
               /\ o.outcome.reason = "CouldNotExtractTeam"
               /\ ~Truthy(o.teamName)

\* C11: a work item with neither a usable System.TeamId nor a usable
\* System.AreaPath (each absent, empty or not a string) is never allowed by
\* validateWorkItemTeamAccess: under every non-empty allow-list the
\* validation throws the "no associated team or area path" validation
\* error, without fetching teams, and the operation returns no content and
\* makes no update or link call.
C11_IndeterminateIdentityDenied ==
    \A t \in AllTasks :
        LET o == task[t]
        IN  ( /\ ItemAllowed(o) \/ ItemDenied(o)
              /\ ~UsableString(o.item.teamId)
              /\ ~UsableString(o.item.areaPath) )
            => /\ ItemDenied(o)
               /\ AllowedNames(config.allowedTeamBoards) # {}
               /\ o.outcome.kind = "error"
               /\ o.outcome.cls = ValidationError
               /\ o.outcome.reason = "NoTeamOrAreaPath"
               /\ o.outcome.content = NoContent
               /\ CallsOf(o, {"getTeams", "validated", "updateWorkItem",
                              "manageWorkItemLink"}) = {}

C11_Witness ==
    \E t \in AllTasks :
        /\ config = Config(Str(<<"7">>))
        /\ task[t].req.name = "get_work_item"
        /\ task[t].item = WorkItemStore[12]
        /\ ItemDenied(task[t])
        /\ task[t].outcome.reason = "NoTeamOrAreaPath"

SameLetter(c, d) ==
    \/ c = d
    \/ {c, d} \in {{"A", "a"}, {"B", "b"}, {"C", "c"}, {"P", "p"}, {"Q", "q"}}

\* Two names that differ at most in the case of their letters.
EqualIgnoringCase(x, y) ==
    /\ Len(x) = Len(y)
    /\ \A i \in 1..Len(x) : SameLetter(x[i], y[i])

\* C12: isTeamAllowed(allowList, name) is true exactly when the allow-list
\* is not null, not empty, and one of its entries equals the name up to the
\* case of the letters ("Ab" matches the entry "ab"); a null or empty
\* allow-list gives false for every name.
C12_IsTeamAllowedIffListedIgnoringCase ==
    (probe.fn = "isTeamAllowed" /\ probe.done)
    => ( probe.outBool
         <=> /\ ~probe.list.isNull
             /\ Len(probe.list.list) > 0
             /\ \E i \in 1..Len(probe.list.list) :
                   EqualIgnoringCase(probe.list.list[i], probe.a) )

C12_Witness ==
    /\ probe.fn = "isTeamAllowed"
    /\ probe.done
    /\ probe.list = ListOf(<< <<"B">>, <<"a", "b">> >>)
    /\ probe.a = <<"A", "b">>
    /\ probe.outBool

CommaCuts(s) == {0, Len(s) + 1} \cup {i \in 1..Len(s) : s[i] = Comma}

RECURSIVE TokensFrom(_, _)
\* The pieces of s after position lo, each cut down to what lies between its
\* first and its last non-blank character, the blank pieces left out.
TokensFrom(s, lo) ==
    IF lo > Len(s) THEN <<>>
    ELSE LET hi == CHOOSE j \in CommaCuts(s) :
                      j > lo /\ \A k \in CommaCuts(s) : k > lo => j <= k
             inked == {i \in (lo + 1)..(hi - 1) : s[i] # Space}
             from == CHOOSE i \in inked : \A j \in inked : i <= j
             to == CHOOSE i \in inked : \A j \in inked : j <= i
         IN  (IF inked = {} THEN <<>>
              ELSE << [i \in 1..(to - from + 1) |-> s[from + i - 1]] >>)
             \o TokensFrom(s, hi)

\* C17: parseAllowedTeamBoards returns null when its input is absent or
\* holds nothing but blanks; otherwise it returns the comma-separated
\* tokens in the order written, each without its surrounding blanks, the
\* empty ones left out, so that no entry of the result is empty, starts or
\* ends with a blank, or holds a comma.
C17_ParsedAllowListIsTrimmedTokens ==
    (probe.fn = "parseAllowedTeamBoards" /\ probe.done)
    => LET raw == probe.raw
           blank == \/ raw.ty # "string"
                    \/ \A i \in 1..Len(raw.s) : raw.s[i] = Space
           res == probe.outList
       IN  /\ res.isNull <=> blank
           /\ ~blank => res.list = TokensFrom(raw.s, 0)
           /\ \A i \in 1..Len(res.list) :
                  LET n == res.list[i]
                  IN  /\ n # <<>>
                      /\ n[1] # Space
                      /\ n[Len(n)] # Space
                      /\ \A j \in 1..Len(n) : n[j] # Comma

C17_Witness ==
    /\ probe.fn = "parseAllowedTeamBoards"
    /\ probe.done
    /\ probe.raw = Str(<<" ", "b", ",", ",", "A">>)
    /\ probe.outList = ListOf(<< <<"b">>, <<"A">> >>)

\* The teams of a project that carry this name up to the case of letters.
MatchingTeams(projectId, n) ==
    {tm \in Range(teams[projectId]) :
        /\ UsableString(tm.name) /\ UsableString(tm.id)
        /\ EqualIgnoringCase(tm.name.s, n)}

\* getAllowedTeamIds has settled in this task and its team fetch succeeded.
AllowedTeamIdsSettled(o) ==
    /\ config.present
    /\ o.req.name = "list_work_items"
    /\ ~Truthy(o.req.teamId)
    /\ CallsOf(o, {"getTeams"}) # {}
    /\ o.pc # "getTeams"
    /\ o.outcome.reason # "GetTeamsFailed"

\* C14: once the teams of the project are fetched, getAllowedTeamIds fails
\* exactly when some requested name matches no team of the project up to
\* letter case; its one validation error carries every unmatched name, in
\* the order requested, and the names of all teams of the project; when it
\* succeeds its result has one key per requested name, each mapped to the
\* id of a team of that name. When it fails inside list_work_items the
\* operation ends there and no listing query is made.
C14_AllUnmatchedNamesReported ==
    \A t \in AllTasks :
        LET o == task[t]
            project == ProjectOf(o.req)
            names == NamesInOrder(config.allowedTeamBoards)
            unmatched ==
                SelectSeq(names, LAMBDA n : MatchingTeams(project, n) = {})
            allTeams == teams[project]
        IN  AllowedTeamIdsSettled(o)
            => /\ o.outcome.reason = "TeamBoardsNotFound" <=> unmatched # <<>>
               /\ unmatched # <<>>
                    => /\ o.pc = "done"
                       /\ o.outcome.kind = "error"
                       /\ o.outcome.cls = ValidationError
                       /\ o.outcome.names = unmatched
                       /\ o.outcome.teams =
                             [i \in 1..Len(allTeams) |->
                                IF UsableString(allTeams[i].name)
                                THEN allTeams[i].name.s
                                ELSE <<"Unknown">>]
                       /\ o.outcome.content = NoContent
                       /\ Lists(o) = {}
               /\ unmatched = <<>>
                    => /\ \A n \in Range(names) :
                             /\ ObjHas(o.teamsData, n)
                             /\ \E tm \in MatchingTeams(project, n) :
                                   ObjGet(o.teamsData, n) = tm.id
                       /\ \A i \in 1..Len(o.teamsData) :
                             o.teamsData[i][1] \in Range(names)
                       /\ Lists(o) # {}

C14_Witness ==
    \E t \in AllTasks :
        /\ config = Config(Str(<<"C", ",", "A", ",", "Q">>))
        /\ task[t].req.name = "list_work_items"
        /\ task[t].req.projectId = Undef
        /\ AllowedTeamIdsSettled(task[t])
        /\ task[t].outcome.reason = "TeamBoardsNotFound"
        /\ task[t].outcome.names = << <<"C">>, <<"Q">> >>
        /\ task[t].outcome.teams
              = << <<"A">>, <<"B">>, <<"Unknown">>, <<"2">> >>

\* The errors that are a client call rejecting, not a decision of the policy.
ClientFailures == {"GetWorkItemFailed", "GetTeamsFailed", "ClientCallFailed"}

\* C15: with a config, every operation that ends in an error other than a
\* rejected client call ends in an AzureDevOpsValidationError: no allow-list
\* configured, team not found, no team or area path, team not in the
\* allow-list, several teams on creation. Under an allow-list that grants
\* nothing every operation, list_work_items included, ends in that
\* validation error. An operation that ends in a response was denied
\* nowhere: its work items passed the validation and its team is allowed.
C15_DenialsAreValidationErrors ==
    \A t \in AllTasks :
        LET o == task[t]
            raw == config.allowedTeamBoards
        IN  (config.present /\ Settled(t))
            => /\ ( /\ o.outcome.kind = "error"
                    /\ o.outcome.reason \notin ClientFailures )
                    => o.outcome.cls = ValidationError
               /\ o.outcome.cls # "Error"
               /\ GrantsNothing(raw)
                    => /\ o.outcome.kind = "error"
                       /\ o.outcome.cls = ValidationError
               /\ o.outcome.kind = "ok"
                    => /\ AllowedNames(raw) # {}
                       /\ o.req.name \in {"get_work_item", "update_work_item",
                                           "manage_work_item_link"}
                            => ItemAllowed(o)
                       /\ (o.req.name = "list_work_items"
                              /\ Truthy(o.req.teamId))
                            => /\ Truthy(o.teamName)
                               /\ ToLowerCase(o.teamName.s)
                                     \in AllowedNamesLower(raw)

C15_Witness ==
    \E t \in AllTasks :
        /\ config = Config(Undef)
        /\ task[t].req.name = "list_work_items"
        /\ Truthy(task[t].req.teamId)
        /\ Settled(t)
        /\ task[t].outcome.kind = "error"
        /\ task[t].outcome.cls = ValidationError
        /\ task[t].outcome.reason = "NoAllowList"

\* A step in which the team fetch a task awaits rejects: whatever function
\* made the fetch, the operation ends there in the error of the fetch, not
\* in a decision about the team, with no content, nothing called after the
\* fetch, and the team cache as it was.
FetchRejectionPropagates(t) ==
    LET o == task[t]
        n == task'[t]
    IN  (o.pc = "getTeams" /\ RejectedMark \in Range(n.trace))
        => /\ n.pc = "done"
           /\ n.outcome.kind = "error"
           /\ n.outcome.reason \in {"FailedToGetTeams", "GetTeamsFailed"}
           /\ n.outcome.content = NoContent
           /\ n.trace = Append(o.trace, RejectedMark)
           /\ CallsOf(n, FinalCalls) = {}
           /\ ~ItemAllowed(n)
           /\ n.teamName = o.teamName
           /\ teamCache' = teamCache

\* C16: when the team fetch fails during resolution, in getTeamNameById or
\* in getAllowedTeamIds, the operation ends in an error: the team is neither
\* reported as not found or not allowed nor let through, no work-item
\* content is returned, no query, update or link call follows, and the
\* team cache is unchanged by the failed fetch.
C16_FetchFailureIsAnError ==
    [][\A t \in AllTasks : FetchRejectionPropagates(t)]_vars

C16_Witness ==
    \E t \in AllTasks :
        /\ config = Config(Str(<<"A">>))
        /\ task[t].req.name = "update_work_item"
        /\ task[t].req.workItemId = 1
        /\ Settled(t)
        /\ task[t].trace[Len(task[t].trace)] = RejectedMark
        /\ task[t].outcome.reason = "FailedToGetTeams"
        /\ teamCache[P] = NoCacheEntry

\* C18: for a work item that has a System.TeamId the decision of
\* validateWorkItemTeamAccess is that of the team the id resolves to,
\* whatever the area path: the item is allowed exactly when that team is in
\* the allow-list, and denied as "team id not found" when the id resolves
\* to no team, even if the area path names an allowed team. Only an item
\* without System.TeamId is decided by the first segment of its area path.
C18_TeamIdDecidesBeforeAreaPath ==
    \A t \in AllTasks :
        LET o == task[t]
            listed == AllowedNamesLower(config.allowedTeamBoards)
            byId == ServiceTeamNames(o.project, o.item.teamId)
        IN  ( /\ ItemAllowed(o) \/ ItemDenied(o)
              /\ o.outcome.reason # "FailedToGetTeams" )
            => IF UsableString(o.item.teamId)
               THEN /\ ItemAllowed(o)
                         <=> \E n \in byId : ToLowerCase(n) \in listed
                    /\ byId = {}
                         => /\ ItemDenied(o)
                            /\ o.outcome.reason = "TeamIdNotFound"
                            /\ ~Truthy(o.teamName)
                    /\ Truthy(o.teamName)
                         => ToLowerCase(o.teamName.s)
                               \in {ToLowerCase(n) : n \in byId}
               ELSE /\ \A i \in CallsOf(o, {"getTeams"}) :
                          i < LastIndex(o.trace, "parseAllowedTeamBoards")
                    /\ Truthy(o.teamName)
                         => /\ UsableString(o.item.areaPath)
                            /\ o.teamName.s
                                  = TeamSegment(o.item.areaPath.s, o.project)

C18_Witness ==
    \E t \in AllTasks :
        /\ config = Config(Str(<<"A">>))
        /\ task[t].item = WorkItemStore[4]
        /\ TeamSegment(task[t].item.areaPath.s, task[t].project) = <<"A">>
        /\ ItemDenied(task[t])
        /\ task[t].outcome.reason = "TeamIdNotFound"

\* C19: with a config, list_work_items with a teamId makes its listing
\* query only after validateTeamBoardAccess has resolved that teamId, in
\* the project of the request, to a team name that is in the allow-list;
\* the query is the last call and is made for that project and teamId. When
\* the teamId names no team of the project, or a team outside the
\* allow-list, the operation ends in the matching validation error and no
\* listing query is made.
C19_ListByTeamOnlyForAllowedTeam ==
    \A t \in AllTasks :
        LET o == task[t]
            tr == o.trace
            project == ProjectOf(o.req)
            listed == AllowedNamesLower(config.allowedTeamBoards)
            byId == ServiceTeamNames(project, o.req.teamId)
            allowed == \E n \in byId : ToLowerCase(n) \in listed
        IN  (config.present /\ o.req.name = "list_work_items"
               /\ Truthy(o.req.teamId) /\ Serving(t))
            => /\ \A k \in Lists(o) :
                    /\ allowed
                    /\ o.ctx = "teamBoard"
                    /\ o.teamId = o.req.teamId
                    /\ Truthy(o.teamName)
                    /\ ToLowerCase(o.teamName.s) \in listed
                    /\ ToLowerCase(o.teamName.s)
                          \in {ToLowerCase(n) : n \in byId}
                    /\ k = Len(tr)
                    /\ tr[k].project = project
                    /\ tr[k].teamId = o.req.teamId
               /\ o.outcome.kind = "ok" => Lists(o) # {}
               /\ (Settled(t) /\ ~allowed)
                    => /\ o.outcome.kind = "error"
                       /\ o.outcome.cls = ValidationError
                       /\ o.outcome.content = NoContent
                       /\ Lists(o) = {}
                       /\ ( /\ listed # {}
                            /\ o.outcome.reason # "FailedToGetTeams" )
                            => o.outcome.reason =
                                  IF byId = {} THEN "TeamNotFound"
                                  ELSE "TeamNotAllowed"

C19_Witness ==
    \E t \in AllTasks :
        /\ config = Config(Str(<<"P">>))
        /\ task[t].req.name = "list_work_items"
        /\ task[t].req.teamId = Str(<<"t1">>)
        /\ task[t].req.projectId = Undef
        /\ Settled(t)
        /\ task[t].teamName = Str(<<"A">>)
        /\ task[t].outcome.reason = "TeamNotAllowed"
        /\ Lists(task[t]) = {}

\* C20: with a config, the wiql a caller sends with list_work_items never
\* reaches listWorkItems: with or without a teamId, every listing query
\* made is the query built from the allow-list, "project = P AND (area
\* path under P\N1 OR ...)".
C20_CallerQueryNeverForwarded ==
    \A t \in AllTasks :
        LET o == task[t]
            project == ProjectOf(o.req)
        IN  (config.present /\ o.req.name = "list_work_items"
               /\ Truthy(o.req.wiql))
            => \A k \in Lists(o) :
                  /\ o.trace[k].wiql # o.req.wiql
                  /\ o.trace[k].wiql =
                        Str(ExpectedWiql(project, config.allowedTeamBoards))

\* C21: with a config, update_work_item never moves a work item out of the
\* allowed set: updateWorkItem is called with an area path only when that
\* area path names an allowed team, the work item as the update leaves it
\* still belongs to an allowed team, and an update whose areaPath names a
\* team outside the allow-list ends in an error. (Stated for the work items
\* whose own area path is more than the project name.)
C21_UpdateStaysInAllowedSet ==
    \A t \in AllTasks :
        LET o == task[t]
            tr == o.trace
            listed == AllowedNamesLower(config.allowedTeamBoards)
            named == TeamSegment(o.req.areaPath.s, defaultProject)
            after == [WorkItemStore[o.req.workItemId] EXCEPT
                        !.areaPath = IF Truthy(o.req.areaPath)
                                     THEN o.req.areaPath ELSE @]
        IN  (config.present /\ o.req.name = "update_work_item"
               /\ WorkItemStore[o.req.workItemId].areaPath
                     # Str(defaultProject))
            => /\ \A k \in CallsOf(o, {"updateWorkItem"}) :
                    /\ Truthy(tr[k].areaPath)
                         => ToLowerCase(TeamSegment(tr[k].areaPath.s,
                                                    defaultProject))
                               \in listed
                    /\ \E n \in ItemTeamNames(after, defaultProject) :
                          ToLowerCase(n) \in listed
               /\ ( /\ Settled(t)
                    /\ Truthy(o.req.areaPath)
                    /\ ToLowerCase(named) \notin listed )
                    => o.outcome.kind = "error"

\* The cache of a project holds the team: its name, up to letter case, is a
\* key and the value under it is the team's id.
CacheHolds(cache, projectId, tm) ==
    /\ cache[projectId].present
    /\ \E i \in 1..Len(cache[projectId].obj) :
          /\ EqualIgnoringCase(cache[projectId].obj[i][1], tm.name.s)
          /\ cache[projectId].obj[i][2] = tm.id

\* getTeamNameById has fetched the teams of the task's project and returned.
FetchedForId(o) ==
    /\ o.ctx \in {"workItem", "teamBoard"}
    /\ \E i \in CallsOf(o, {"getTeams"}) : o.trace[i].project = o.project
    /\ o.pc # "getTeams"
    /\ RejectedMark \notin Range(o.trace)

\* C22: once getTeamNameById has missed the cache, fetched the teams of the
\* project and returned, the cache of that project has an entry for every
\* team with a name and an id that the fetch returned, not only for the
\* team that was looked up.
C22_MissRepopulatesWholeProject ==
    \A t \in AllTasks :
        FetchedForId(task[t])
        => \A tm \in Range(teams[task[t].project]) :
              (UsableString(tm.name) /\ UsableString(tm.id))
              => CacheHolds(teamCache, task[t].project, tm)

\* Task t receives the teams of a project: its getTeams call, on either
\* resolution path, settles without rejecting.
TeamsFetched(t) ==
    /\ task[t].pc = "getTeams"
    /\ task'[t].pc # "getTeams"
    /\ RejectedMark \notin Range(task'[t].trace)

\* The cache answers for the team with a name the team has now.
AnswersCurrentName(cache, projectId, tm) ==
    LET hit == CachedTeamName(cache, projectId, tm.id)
    IN  hit # Undef => hit.s = ToLowerCase(tm.name.s)

\* C23: when a lookup has missed the cache and the teams of the project
\* have been fetched again, the cache no longer answers with a name a team
\* had before it was renamed: every team id of that project that the cache
\* resolves, it resolves to the name the team has in the service now.
C23_RefetchHealsStaleNames ==
    [][\A t \in AllTasks :
          TeamsFetched(t)
          => \A tm \in Range(teams'[task[t].project]) :
                (UsableString(tm.name) /\ UsableString(tm.id))
                => AnswersCurrentName(teamCache', task[t].project, tm)]_vars

\* The team ids the cache of a project holds.
CachedIds(cache, projectId) ==
    {cache[projectId].obj[i][2] : i \in 1..Len(cache[projectId].obj)}

\* In this step task t calls getTeamNameById: from the router for the
\* teamId of a list request, or from validateWorkItemTeamAccess for the
\* System.TeamId of the work item just fetched. The project and the id it
\* resolves are task'[t].project and task'[t].teamId.
EntersResolution(t) ==
    LET o == task[t]
        n == task'[t]
    IN  /\ o.pc \in {"idle", "witApi.getWorkItem"}
        /\ \E k \in (Len(o.trace) + 1)..Len(n.trace) : n.trace[k] = ParseCall
        /\ n.outcome.reason
              \notin {"NoAllowList", "GetWorkItemFailed", "WorkItemNotFound"}
        /\ \/ o.pc = "idle" /\ n.ctx = "teamBoard"
           \/ o.pc = "witApi.getWorkItem" /\ UsableString(n.item.teamId)

\* The entries the cache holds for the id are all under the name the team
\* has in the service now: the team was not renamed since it was cached.
NotRenamedSince(cache, projectId, id) ==
    \A i \in 1..Len(cache[projectId].obj) :
        cache[projectId].obj[i][2] = id
        => cache[projectId].obj[i][1]
              \in {ToLowerCase(n) : n \in ServiceTeamNames(projectId, id)}

\* A resolution of an id the cache holds returns the cached name, calls
\* getTeams not once and leaves the cache as it is.
HitAnswersWithoutFetch ==
    \A t \in AllTasks :
        LET o == task[t]
            n == task'[t]
            hit == CachedTeamName(teamCache, n.project, n.teamId)
        IN  (EntersResolution(t) /\ hit # Undef)
            => /\ n.teamName = hit
               /\ n.pc # "getTeams"
               /\ \A k \in CallsOf(n, {"getTeams"}) : k <= Len(o.trace)
               /\ teamCache' = teamCache

\* C24 as stated: once the cache of a project holds a team id, the name it
\* answers for that id never changes, and every later resolution of that
\* id returns that name without a getTeams call.
C24_CachedNameNeverChanges ==
    [][/\ \A p \in Projects :
             \A id \in CachedIds(teamCache, p) :
                CachedTeamName(teamCache', p, id)
                    = CachedTeamName(teamCache, p, id)
       /\ HitAnswersWithoutFetch]_vars

\* C24, amended: once the cache of a project holds a team id, and as long
\* as the team is not renamed in the service, the name the cache answers
\* for that id never changes; every resolution of a cached id, renamed or
\* not, returns the cached name without a getTeams call.
C24_CachedResolutionIsIdempotent ==
    [][/\ \A p \in Projects :
             \A id \in CachedIds(teamCache, p) :
                NotRenamedSince(teamCache, p, id)
                => CachedTeamName(teamCache', p, id)
                      = CachedTeamName(teamCache, p, id)
       /\ HitAnswersWithoutFetch]_vars

C24_Witness ==
    \E t \in AllTasks :
        /\ config = Config(Str(<<"A">>))
        /\ task[t].req.name = "get_work_item"
        /\ task[t].item.id = 1
        /\ ItemAllowed(task[t])
        /\ task[t].teamName = Str(<<"a">>)
        /\ CallsOf(task[t], {"getTeams"}) = {}
        /\ CachedTeamName(teamCache, P, Str(<<"t1">>)) = Str(<<"a">>)

\* The service has no team of this id in the project.
AbsentTeam(projectId, teamId) ==
    \A tm \in Range(teams[projectId]) : tm.id # teamId

\* The getTeams calls the task has made since it last read the allow-list.
FetchesOfThisCall(o) ==
    {k \in CallsOf(o, {"getTeams"}) :
        k > LastIndex(o.trace, "parseAllowedTeamBoards")}

\* C25: a resolution of a team id that the project's teams do not contain
\* always fetches; when the fetch has answered, getTeamNameById has made
\* that one getTeams call, returns null and leaves the cache as it was, and
\* its caller ends in a validation error that says the team was not found,
\* which is neither the not-in-the-allowed-list denial nor the
\* failed-to-get-teams error.
C25_AbsentIdIsNotFound ==
    [][\A t \in AllTasks :
          LET o == task[t]
              n == task'[t]
          IN  /\ (EntersResolution(t) /\ AbsentTeam(n.project, n.teamId))
                 => /\ n.pc = "getTeams"
                    /\ Cardinality(FetchesOfThisCall(n)) = 1
              /\ ( /\ o.pc = "getTeams"
                   /\ o.ctx \in {"workItem", "teamBoard"}
                   /\ TeamsFetched(t)
                   /\ AbsentTeam(o.project, o.teamId) )
                 => /\ teamCache' = teamCache
                    /\ n.teamName = Null
                    /\ Cardinality(FetchesOfThisCall(n)) = 1
                    /\ n.pc = "done"
                    /\ n.outcome.kind = "error"
                    /\ n.outcome.cls = ValidationError
                    /\ n.outcome.reason
                          = IF o.ctx = "workItem" THEN "TeamIdNotFound"
                            ELSE "TeamNotFound"
                    /\ CallsOf(n, FinalCalls) = {}]_vars

C25_Witness ==
    \E t \in AllTasks :
        /\ config = Config(Str(<<"A">>))
        /\ task[t].req.name = "get_work_item"
        /\ task[t].item.id = 4
        /\ Settled(t)
        /\ task[t].outcome.reason = "TeamIdNotFound"
        /\ Cardinality(FetchesOfThisCall(task[t])) = 1
        /\ ~teamCache[P].present

\* C26: a request that ends because the fetch of the project's teams
\* failed ends in a validation error, whether getTeamNameById or
\* getAllowedTeamIds made the fetch; the error of the client does not leave
\* the router as it came.
C26_EveryFetchFailureIsWrapped ==
    \A t \in AllTasks :
        (Settled(t) /\ RejectedMark \in Range(task[t].trace))
        => /\ task[t].outcome.kind = "error"
           /\ task[t].outcome.cls = ValidationError
           /\ task[t].outcome.reason = "FailedToGetTeams"

RECURSIVE RunAlone(_, _)
\* The handler run on, by itself, from the point where it awaits: every
\* call on the client answers, no other handler touches the cache. The
\* result is the task where it has settled or awaits the work-item
\* operation it forwards.
RunAlone(o, cache) ==
    IF o.pc = "witApi.getWorkItem"
    THEN LET workItem == WorkItemStore[o.trace[Len(o.trace)].id]
         IN  RunAlone(IF ~workItem.exists
                      THEN Throw(o, "WorkItemNotFound")
                      ELSE validateWorkItemTeamAccess(o, cache, o.project,
                                                      workItem),
                      cache)
    ELSE IF o.pc = "getTeams" /\ o.ctx \in {"workItem", "teamBoard"}
    THEN RunAlone(AfterTeamName(o, FetchedTeamName(teams[o.project],
                                                   o.teamId)),
                  CacheAfterLookup(cache, o.project, teams[o.project],
                                   o.teamId))
    ELSE IF o.pc = "getTeams"
    THEN LET allowedTeams ==
                 parseAllowedTeamBoards(config.allowedTeamBoards)
             resolved == ResolveNames(BuildTeamMap(EmptyObj,
                                                   teams[o.project]),
                                      allowedTeams.list, <<EmptyObj, <<>>>>)
         IN  IF Len(resolved[2]) > 0
             THEN Fail(o, ValidationError, "TeamBoardsNotFound", <<>>,
                       resolved[2], AvailableTeams(teams[o.project]))
             ELSE IssueCall([o EXCEPT !.teamsData = resolved[1]],
                            ListCall(o.project, Undef,
                               Str(BuildWiql(o.project, resolved[1]))))
    ELSE o

\* The request served alone by a process whose cache is empty.
AloneFromEmptyCache(req) ==
    RunAlone(handleWorkItemsRequest(req, EmptyTeamCache), EmptyTeamCache)

\* The errors that report a client call that failed, not a decision.
CallFailures == {"GetWorkItemFailed", "FailedToGetTeams", "GetTeamsFailed"}

\* The handler has decided: it forwards the operation, or it has settled
\* for another reason than a failed fetch.
Decided(o) ==
    \/ o.pc \in FinalCalls
    \/ o.pc = "done" /\ o.outcome.reason \notin CallFailures

\* ALLOW with the operation forwarded, or DENY with its reason.
Decision(o) ==
    LET calls == CallsOf(o, FinalCalls)
    IN  IF calls # {}
        THEN <<"ALLOW", o.trace[CHOOSE k \in calls : TRUE]>>
        ELSE IF o.outcome.kind = "ok"
        THEN <<"ALLOW", o.outcome.content.src>>
        ELSE <<"DENY", o.outcome.cls, o.outcome.reason>>

\* C27: with two handlers interleaved at their awaits over one teamCache
\* and an unchanging team list, whatever the cache holds when a handler
\* reads it, the decision of every request (ALLOW and the operation it
\* forwards, or DENY and its reason) is the decision the same request gets
\* when it is served alone from an empty cache.
C27_InterleavingKeepsDecisions ==
    \A t \in AllTasks :
        Decided(task[t])
        => Decision(task[t]) = Decision(AloneFromEmptyCache(task[t].req))

\* task1 has resolved t1 from an entry that task2 cached while task1 was
\* awaiting its work item, and task2 is still in flight.
C27_Witness ==
    /\ config = Config(Str(<<"A">>))
    /\ task["task1"].req.name = "get_work_item"
    /\ task["task1"].req.workItemId = 1
    /\ Decided(task["task1"])
    /\ task["task1"].teamName = Str(<<"a">>)
    /\ CallsOf(task["task1"], {"getTeams"}) = {}
    /\ task["task2"].req.name = "list_work_items"
    /\ task["task2"].pc = "listWorkItems"
    /\ CallsOf(task["task2"], {"getTeams"}) # {}

\* The keys the cache holds under a project.
CachedKeys(cache, projectId) ==
    {cache[projectId].obj[i][1] : i \in 1..Len(cache[projectId].obj)}

\* The team lists getTeams can have returned so far: the one the service
\* started with and the one it has now.
ListsSoFar == {InitialTeams, teams}

\* Every entry of the cache is the lower-cased name and the id of one team
\* of that project in a list the service has returned.
EntriesComeFromFetches ==
    \A p \in Projects :
        /\ ~teamCache[p].present => teamCache[p].obj = EmptyObj
        /\ \A i \in 1..Len(teamCache[p].obj) :
              \E ts \in ListsSoFar :
                 \E tm \in Range(ts[p]) :
                    /\ UsableString(tm.name)
                    /\ UsableString(tm.id)
                    /\ teamCache[p].obj[i] = <<ToLowerCase(tm.name.s), tm.id>>

\* No step takes a project or a key out of the cache.
KeysOnlyGrow ==
    \A p \in Projects :
        /\ teamCache[p].present => teamCache'[p].present
        /\ CachedKeys(teamCache, p) \subseteq CachedKeys(teamCache', p)

\* C28: in every reachable state each entry the cache holds under a
\* project maps the lower-cased name of a team of that project to the id a
\* fetch returned for that team, and no step removes a project or a key
\* from the cache.
C28_CacheMapsNamesToIdsAndGrows ==
    []EntriesComeFromFetches /\ [][KeysOnlyGrow]_vars

\* t1 was cached as "a", renamed to "C" and cached again as "c".
C28_Witness ==
    /\ teams[P][1].name = Str(<<"C">>)
    /\ {<<"a">>, <<"c">>, <<"b">>} \subseteq CachedKeys(teamCache, P)
    /\ ObjGet(teamCache[P].obj, <<"a">>) = Str(<<"t1">>)
    /\ ObjGet(teamCache[P].obj, <<"c">>) = Str(<<"t1">>)

\* C29: for an unchanging team list, the team name getTeamNameById returns
\* for a team id, and with it the name a not-in-the-allowed-list denial
\* shows, is the name the service gives the team, whether the answer came
\* from a fetch or from the cache: the first and the later calls return
\* the same string.
C29_SameNameFromFetchAndCache ==
    \A t \in AllTasks :
        LET o == task[t]
        IN  ( /\ UsableString(o.item.teamId)
              /\ ItemAllowed(o) \/ ItemDenied(o)
              /\ Truthy(o.teamName) )
            => /\ o.teamName.s \in ServiceTeamNames(o.project, o.item.teamId)
               /\ o.outcome.reason = "NotInAllowedList"
                    => o.outcome.teamName
                          \in ServiceTeamNames(o.project, o.item.teamId)

====
